---------------------------- MODULE Spec2Model ----------------------------
(***************************************************************************)
(* Effective sample size (ESS) and Gelman-Rubin posterior variance of      *)
(* assets/posts/ESS/rwmh.py: the nested-loop functions ESS / gelman_rubin  *)
(* and the vectorised my_ESS / my_gelman_rubin.                            *)
(*                                                                         *)
(* A float64 value is modelled as an exact rational <<num, den>> in lowest *)
(* terms with den > 0, extended with numpy's non-finite results of a       *)
(* division by zero: <<0, 0>> is nan, <<1, 0>> is +inf, <<-1, 0>> is -inf. *)
(* Rounding error is not modelled.  Arrays keep Python's 0-based indices:  *)
(* an array of length l is a function on 0 .. l-1.                         *)
(***************************************************************************)
EXTENDS Integers, Sequences, FiniteSets, TLC

\* Bounds of the checked input space.
MaxCells == 8      \* chain matrices of shape (m, n) with m*n <= MaxCells
MaxVal == 1        \* matrix entries are drawn from 0 .. MaxVal
MaxShift == 1      \* shift constants c are -MaxShift and MaxShift

VARIABLES fn, arg, pc, post_var, B_over_n, W, t, rho, negative_autocorr,
          denom, ret, exc, divisors

vars == <<fn, arg, pc, post_var, B_over_n, W, t, rho, negative_autocorr,
          denom, ret, exc, divisors>>

\* The two calls made one after the other (rwmh.py lines 153-154).
Calls == {1, 2}

---------------------------------------------------------------------------
\* float64 arithmetic (exact, with numpy's nan / inf for division by zero)

Abs(a) == IF a < 0 THEN -a ELSE a

Sgn(a) == IF a < 0 THEN -1 ELSE IF a = 0 THEN 0 ELSE 1

RECURSIVE GCD(_, _)
GCD(a, b) == IF b = 0 THEN a ELSE GCD(b, a % b)

float64(n, d) ==
    IF d = 0 THEN <<Sgn(n), 0>>
    ELSE LET g == GCD(Abs(n), Abs(d))
             s == Sgn(d)
         IN  <<(s * n) \div g, (s * d) \div g>>

nan == <<0, 0>>

inf == <<1, 0>>

isfinite(a) == a[2] # 0

isnan(a) == a = nan

negative(a) == <<-a[1], a[2]>>

add(a, b) ==
    IF isfinite(a) /\ isfinite(b)
    THEN LET g == GCD(a[2], b[2])
         IN  float64(a[1] * (b[2] \div g) + b[1] * (a[2] \div g),
                     a[2] * (b[2] \div g))
    ELSE IF isnan(a) \/ isnan(b) THEN nan
    ELSE IF ~isfinite(a) /\ ~isfinite(b) THEN (IF a = b THEN a ELSE nan)
    ELSE IF isfinite(a) THEN b ELSE a

subtract(a, b) == add(a, negative(b))

multiply(a, b) ==
    IF isfinite(a) /\ isfinite(b)
    THEN LET g1 == GCD(Abs(a[1]), b[2])
             g2 == GCD(Abs(b[1]), a[2])
         IN  float64((a[1] \div g1) * (b[1] \div g2),
                     (a[2] \div g2) * (b[2] \div g1))
    ELSE IF isnan(a) \/ isnan(b) \/ a[1] = 0 \/ b[1] = 0 THEN nan
    ELSE <<Sgn(a[1]) * Sgn(b[1]), 0>>

\* 1 / b; the zero of this model is +0.0, so 1 / 0 is +inf.
reciprocal(b) ==
    IF isnan(b) THEN nan
    ELSE IF ~isfinite(b) THEN <<0, 1>>
    ELSE float64(b[2], b[1])

true_divide(a, b) == multiply(a, reciprocal(b))

square(a) == multiply(a, a)

less(a, b) ==
    IF isnan(a) \/ isnan(b) THEN FALSE
    ELSE IF isfinite(a) /\ isfinite(b) THEN a[1] * b[2] < b[1] * a[2]
    ELSE (a = negative(inf) /\ b # negative(inf)) \/ (b = inf /\ a # inf)

fromInt(v) == <<v, 1>>

\* int(): truncation toward zero of a finite float.
int(a) == IF a[1] >= 0 THEN a[1] \div a[2] ELSE -((-a[1]) \div a[2])

---------------------------------------------------------------------------
\* arrays

len(a) == Cardinality(DOMAIN a)

\* a[lo:hi] of a one-dimensional array, 0 <= lo <= hi <= len(a)
slice(a, lo, hi) == [i \in 0 .. (hi - lo - 1) |-> a[lo + i]]

\* x[:, lo:hi] of a two-dimensional array
column_slice(x, lo, hi) == [j \in DOMAIN x |-> slice(x[j], lo, hi)]

RECURSIVE sum_upto(_, _)
sum_upto(a, k) == IF k = 0 THEN fromInt(0) ELSE add(sum_upto(a, k - 1), a[k - 1])

\* sum of a one-dimensional array of floats
sum(a) == sum_upto(a, len(a))

\* sum of all elements of a two-dimensional array of floats
sum_all(x) == sum([j \in DOMAIN x |-> sum(x[j])])

ones(n) == [i \in 0 .. (n - 1) |-> fromInt(1)]

asfloat(x) == [j \in DOMAIN x |-> [i \in DOMAIN x[j] |-> fromInt(x[j][i])]]

m_chains_of(x) == len(x)

n_iters_of(x) == len(x[0])

\* np.mean(x, axis=1)
mean_axis1(x) == [j \in DOMAIN x |-> true_divide(sum(x[j]), fromInt(n_iters_of(x)))]

\* np.mean(x)
mean(x) == true_divide(sum_all(x), fromInt(m_chains_of(x) * n_iters_of(x)))

---------------------------------------------------------------------------
\* gelman_rubin (nested-loop) and my_gelman_rubin (vectorised)

\* B_over_n = ((np.mean(x, axis=1) - np.mean(x))**2).sum() / (m_chains - 1)
between_chain(x) ==
    LET mu == mean(x)
        mus == mean_axis1(x)
    IN  true_divide(sum([j \in DOMAIN x |-> square(subtract(mus[j], mu))]),
                    fromInt(m_chains_of(x) - 1))

\* W = np.sum([(x[i] - xbar) ** 2 for i, xbar in enumerate(np.mean(x, 1))]) / (m_chains * (n - 1))
gelman_rubin_W(x) ==
    LET xf == asfloat(x)
        mus == mean_axis1(xf)
        rows == [i \in DOMAIN x |->
                    [c \in DOMAIN x[i] |-> square(subtract(xf[i][c], mus[i]))]]
    IN  true_divide(sum_all(rows),
                    fromInt(m_chains_of(x) * (n_iters_of(x) - 1)))

\* x.mean(axis=1, keepdims=True): an (m, 1) column
mean_keepdims(x) == [j \in DOMAIN x |-> [c \in {0} |-> mean_axis1(x)[j]]]

\* x - col, the (m, 1) column broadcast along axis 1
broadcast_subtract(x, col) ==
    [j \in DOMAIN x |-> [i \in DOMAIN x[j] |-> subtract(x[j][i], col[j][0])]]

\* my_gelman_rubin_W with the grand mean subtracted in place of each chain's mean
my_gelman_rubin_W_grand_mean(x) ==
    LET xf == asfloat(x)
        mu == mean(xf)
    IN  true_divide(sum_all([j \in DOMAIN xf |->
                                [i \in DOMAIN xf[j] |-> square(subtract(xf[j][i], mu))]]),
                    fromInt(m_chains_of(x) * (n_iters_of(x) - 1)))

\* W = ((x - x.mean(axis=1, keepdims=True))**2).sum() / (m_chains*(n_iters - 1))
my_gelman_rubin_W(x) ==
    LET xf == asfloat(x)
        d == broadcast_subtract(xf, mean_keepdims(xf))
    IN  true_divide(sum_all([j \in DOMAIN d |-> [i \in DOMAIN d[j] |-> square(d[j][i])]]),
                    fromInt(m_chains_of(x) * (n_iters_of(x) - 1)))

\* posterior_variance with the between-chain term subtracted
posterior_variance_minus(w, b, n) ==
    subtract(true_divide(multiply(w, fromInt(n - 1)), fromInt(n)), b)

\* s2 = W * (n - 1) / n + B_over_n
posterior_variance(w, b, n) ==
    add(true_divide(multiply(w, fromInt(n - 1)), fromInt(n)), b)

gelman_rubin(x) ==
    posterior_variance(gelman_rubin_W(x), between_chain(asfloat(x)), n_iters_of(x))

my_gelman_rubin(x) ==
    posterior_variance(my_gelman_rubin_W(x), between_chain(asfloat(x)), n_iters_of(x))

\* the divisors of the divisions executed by one call of (my_)gelman_rubin
gelman_rubin_divisors(x) ==
    LET m == m_chains_of(x)
        n == n_iters_of(x)
    IN  {fromInt(n), fromInt(m * n), fromInt(m - 1), fromInt(m * (n - 1))}

---------------------------------------------------------------------------
\* variograms

RECURSIVE lag_sum_plus(_, _, _)
\* lag_sum with the two draws added instead of subtracted
lag_sum_plus(xj, lag, hi) ==
    IF hi <= lag THEN 0
    ELSE lag_sum_plus(xj, lag, hi - 1)
         + (xj[hi - 1] + xj[hi - 1 - lag]) * (xj[hi - 1] + xj[hi - 1 - lag])

RECURSIVE lag_sum(_, _, _)
\* sum((x[j][i] - x[j][i-t])**2 for i in range(t, hi)) for one chain xj
lag_sum(xj, lag, hi) ==
    IF hi <= lag THEN 0
    ELSE lag_sum(xj, lag, hi - 1)
         + (xj[hi - 1] - xj[hi - 1 - lag]) * (xj[hi - 1] - xj[hi - 1 - lag])

RECURSIVE chain_sum(_, _, _)
\* sum(... for j in range(hi))
chain_sum(x, lag, hi) ==
    IF hi = 0 THEN 0
    ELSE chain_sum(x, lag, hi - 1) + lag_sum(x[hi - 1], lag, n_iters_of(x))

\* ESS: variogram = lambda t: sum(sum(...)) / (m_chains * (n_iters - t))
variogram(x, lag) ==
    true_divide(fromInt(chain_sum(x, lag, m_chains_of(x))),
                fromInt(m_chains_of(x) * (n_iters_of(x) - lag)))

\* my_variogram averaged over m_chains * n_iters pairs instead of m_chains * (n_iters - t)
my_variogram_all_pairs(x, lag) ==
    LET n == n_iters_of(x)
        xf == asfloat(x)
        a == column_slice(xf, lag, n)
        b == column_slice(xf, 0, n - lag)
    IN  true_divide(sum_all([j \in DOMAIN a |->
                                [i \in DOMAIN a[j] |-> square(subtract(a[j][i], b[j][i]))]]),
                    fromInt(m_chains_of(x) * n))

\* my_ESS: variogram = lambda t: ((x[:, t:] - x[:, :(n_iters - t)])**2).sum() / (m_chains * (n_iters - t))
my_variogram(x, lag) ==
    LET n == n_iters_of(x)
        xf == asfloat(x)
        a == column_slice(xf, lag, n)
        b == column_slice(xf, 0, n - lag)
    IN  true_divide(sum_all([j \in DOMAIN a |->
                                [i \in DOMAIN a[j] |-> square(subtract(a[j][i], b[j][i]))]]),
                    fromInt(m_chains_of(x) * (n - lag)))

---------------------------------------------------------------------------
\* inputs

Shapes == {s \in (2 .. MaxCells) \X (2 .. MaxCells) : s[1] * s[2] <= MaxCells}

Matrices(m, n) == [0 .. (m - 1) -> [0 .. (n - 1) -> 0 .. MaxVal]]

Shifts == {-MaxShift, MaxShift}

\* x + c
shifted(x, c) == [j \in DOMAIN x |-> [i \in DOMAIN x[j] |-> x[j][i] + c]]

\* the state of a call before it starts
Start(f, a) ==
    /\ fn = f
    /\ arg = a
    /\ pc = [k \in Calls |-> "entry"]
    /\ post_var = [k \in Calls |-> nan]
    /\ B_over_n = [k \in Calls |-> nan]
    /\ W = [k \in Calls |-> nan]
    /\ t = [k \in Calls |-> 0]
    /\ rho = [k \in Calls |-> << >>]
    /\ negative_autocorr = [k \in Calls |-> FALSE]
    /\ denom = [k \in Calls |-> nan]
    /\ ret = [k \in Calls |-> 0]
    /\ exc = [k \in Calls |-> "none"]
    /\ divisors = [k \in Calls |-> {}]

\* timeit ESS(x); timeit my_ESS(x) on the same matrix
Init ==
    \E s \in Shapes : \E x \in Matrices(s[1], s[2]) :
        Start(<<"ESS", "my_ESS">>, <<x, x>>)

\* ESS(x) and ESS(x + c)
InitShift ==
    \E s \in Shapes : \E x \in Matrices(s[1], s[2]) : \E c \in Shifts :
        Start(<<"ESS", "ESS">>, <<x, shifted(x, c)>>)

\* calls run one after the other
Runnable(k) == \A j \in Calls : j < k => pc[j] = "done"

---------------------------------------------------------------------------
\* ESS (nested-loop implementation)

\* m_chains, n_iters = x.shape; post_var = gelman_rubin(x), which computes
\* B_over_n, W and s2; t = 1; rho = np.ones(n_iters); negative_autocorr = False
ESS_Enter(k) ==
    /\ fn[k] = "ESS"
    /\ pc[k] = "entry"
    /\ Runnable(k)
    /\ B_over_n' = [B_over_n EXCEPT ![k] = between_chain(asfloat(arg[k]))]
    /\ W' = [W EXCEPT ![k] = gelman_rubin_W(arg[k])]
    /\ post_var' = [post_var EXCEPT
                        ![k] = posterior_variance(W'[k], B_over_n'[k], n_iters_of(arg[k]))]
    /\ divisors' = [divisors EXCEPT ![k] = gelman_rubin_divisors(arg[k])]
    /\ t' = [t EXCEPT ![k] = 1]
    /\ rho' = [rho EXCEPT ![k] = ones(n_iters_of(arg[k]))]
    /\ negative_autocorr' = [negative_autocorr EXCEPT ![k] = FALSE]
    /\ pc' = [pc EXCEPT ![k] = "loop"]
    /\ UNCHANGED <<fn, arg, denom, ret, exc>>

\* while not negative_autocorr and (t < n_iters)
loop_condition(k) == ~negative_autocorr[k] /\ t[k] < n_iters_of(arg[k])

\* autocorrelation without the factor 2
autocorrelation_no_two(v, pv) ==
    subtract(fromInt(1), true_divide(v, pv))

\* rho[t] = 1 - variogram(t) / (2 * post_var)
autocorrelation(v, pv) ==
    subtract(fromInt(1), true_divide(v, multiply(fromInt(2), pv)))

\* sum(rho[t-1:t+1]) < 0
pair_negative(r, lag) ==
    less(add(add(fromInt(0), slice(r, lag - 1, lag + 1)[0]),
             slice(r, lag - 1, lag + 1)[1]),
         fromInt(0))

\* check_lag with the parity inverted
check_lag_odd(lag) == lag % 2 = 1

\* if not t % 2
check_lag(lag) == lag % 2 = 0

\* one pass of the loop body, given the variogram value v of lag t
loop_body(k, v) ==
    LET lag == t[k]
        r == [rho[k] EXCEPT ![lag] = autocorrelation(v, post_var[k])]
    IN  /\ rho' = [rho EXCEPT ![k] = r]
        /\ negative_autocorr' =
              [negative_autocorr EXCEPT
                  ![k] = IF check_lag(lag) THEN pair_negative(r, lag) ELSE @]
        /\ t' = [t EXCEPT ![k] = lag + 1]
        /\ divisors' =
              [divisors EXCEPT
                  ![k] = @ \cup {fromInt(m_chains_of(arg[k]) * (n_iters_of(arg[k]) - lag)),
                                 multiply(fromInt(2), post_var[k])}]
        /\ UNCHANGED <<fn, arg, pc, post_var, B_over_n, W, denom, ret, exc>>

ESS_Iter(k) ==
    /\ fn[k] = "ESS"
    /\ pc[k] = "loop"
    /\ loop_condition(k)
    /\ loop_body(k, variogram(arg[k], t[k]))

\* denominator with the sign of the sum inverted
denominator_minus(r, stop) ==
    subtract(fromInt(1), multiply(fromInt(2), sum(slice(r, 1, stop))))

\* 1 + 2*rho[1:t].sum()
denominator(r, stop) ==
    add(fromInt(1), multiply(fromInt(2), sum(slice(r, 1, stop))))

\* return_int summing rho[1:t-1], one lag short
return_int_short(k) ==
    LET d == denominator(rho[k], t[k] - 1)
        q == true_divide(fromInt(m_chains_of(arg[k]) * n_iters_of(arg[k])), d)
    IN  /\ denom' = [denom EXCEPT ![k] = d]
        /\ divisors' = [divisors EXCEPT ![k] = @ \cup {d}]
        /\ IF isnan(q)
              THEN exc' = [exc EXCEPT ![k] = "ValueError"] /\ UNCHANGED ret
           ELSE IF ~isfinite(q)
              THEN exc' = [exc EXCEPT ![k] = "OverflowError"] /\ UNCHANGED ret
           ELSE ret' = [ret EXCEPT ![k] = int(q)] /\ UNCHANGED exc
        /\ pc' = [pc EXCEPT ![k] = "done"]
        /\ UNCHANGED <<fn, arg, post_var, B_over_n, W, t, rho, negative_autocorr>>

\* return int(m_chains * n_iters / (1 + 2*rho[1:t].sum()))
return_int(k) ==
    LET d == denominator(rho[k], t[k])
        q == true_divide(fromInt(m_chains_of(arg[k]) * n_iters_of(arg[k])), d)
    IN  /\ denom' = [denom EXCEPT ![k] = d]
        /\ divisors' = [divisors EXCEPT ![k] = @ \cup {d}]
        /\ IF isnan(q)
              THEN exc' = [exc EXCEPT ![k] = "ValueError"] /\ UNCHANGED ret
           ELSE IF ~isfinite(q)
              THEN exc' = [exc EXCEPT ![k] = "OverflowError"] /\ UNCHANGED ret
           ELSE ret' = [ret EXCEPT ![k] = int(q)] /\ UNCHANGED exc
        /\ pc' = [pc EXCEPT ![k] = "done"]
        /\ UNCHANGED <<fn, arg, post_var, B_over_n, W, t, rho, negative_autocorr>>

ESS_Return(k) ==
    /\ fn[k] = "ESS"
    /\ pc[k] = "loop"
    /\ ~loop_condition(k)
    /\ return_int(k)

---------------------------------------------------------------------------
\* my_ESS (vectorised implementation)

my_ESS_Enter(k) ==
    /\ fn[k] = "my_ESS"
    /\ pc[k] = "entry"
    /\ Runnable(k)
    /\ B_over_n' = [B_over_n EXCEPT ![k] = between_chain(asfloat(arg[k]))]
    /\ W' = [W EXCEPT ![k] = my_gelman_rubin_W(arg[k])]
    /\ post_var' = [post_var EXCEPT
                        ![k] = posterior_variance(W'[k], B_over_n'[k], n_iters_of(arg[k]))]
    /\ divisors' = [divisors EXCEPT ![k] = gelman_rubin_divisors(arg[k])]
    /\ t' = [t EXCEPT ![k] = 1]
    /\ rho' = [rho EXCEPT ![k] = ones(n_iters_of(arg[k]))]
    /\ negative_autocorr' = [negative_autocorr EXCEPT ![k] = FALSE]
    /\ pc' = [pc EXCEPT ![k] = "loop"]
    /\ UNCHANGED <<fn, arg, denom, ret, exc>>

my_ESS_Iter(k) ==
    /\ fn[k] = "my_ESS"
    /\ pc[k] = "loop"
    /\ loop_condition(k)
    /\ loop_body(k, my_variogram(arg[k], t[k]))

my_ESS_Return(k) ==
    /\ fn[k] = "my_ESS"
    /\ pc[k] = "loop"
    /\ ~loop_condition(k)
    /\ return_int(k)

---------------------------------------------------------------------------
\* specifications

Next ==
    \E k \in Calls :
        \/ ESS_Enter(k)
        \/ ESS_Iter(k)
        \/ ESS_Return(k)
        \/ my_ESS_Enter(k)
        \/ my_ESS_Iter(k)
        \/ my_ESS_Return(k)

Spec == Init /\ [][Next]_vars

NextShift ==
    \E k \in Calls :
        \/ ESS_Enter(k)
        \/ ESS_Iter(k)
        \/ ESS_Return(k)

SpecShift == InitShift /\ [][NextShift]_vars

---------------------------------------------------------------------------
\* vocabulary of the properties

Done(k) == pc[k] = "done"

Returned(k) == Done(k) /\ exc[k] = "none"

zero == fromInt(0)

raw_draws(k) == m_chains_of(arg[k]) * n_iters_of(arg[k])

\* rho[1:t].sum() of call k
rho_sum(k) == sum(slice(rho[k], 1, t[k]))

\* the variogram and posterior variance call k uses
variogram_of(k, lag) ==
    IF fn[k] = "ESS" THEN variogram(arg[k], lag) ELSE my_variogram(arg[k], lag)

post_var_of(k) ==
    IF fn[k] = "ESS" THEN gelman_rubin(arg[k]) ELSE my_gelman_rubin(arg[k])

\* the autocorrelation estimate of lag `lag` for the argument of call k
rho_at(k, lag) == autocorrelation(variogram_of(k, lag), post_var_of(k))

\* the even lags at which rho[lag-1] + rho[lag] < 0, for an array r
negative_pairs(r) ==
    {lag \in 2 .. (len(r) - 1) :
        lag % 2 = 0 /\ less(add(r[lag - 1], r[lag]), zero)}

first_lag(S) == CHOOSE a \in S : \A b \in S : a <= b

\* the autocorrelation estimates of every lag, rho[0] = 1
rho_full(k) ==
    [lag \in 0 .. (n_iters_of(arg[k]) - 1) |->
        IF lag = 0 THEN fromInt(1) ELSE rho_at(k, lag)]

---------------------------------------------------------------------------
\* properties

\* C1: once both calls have finished on the same matrix, ESS and my_ESS have
\* left their while-loop at the same t and have the same outcome: the same
\* returned integer (or, where no integer is returned, the same exception).
C1_SameStopSameResult ==
    (Done(1) /\ Done(2))
        => /\ t[1] = t[2]
           /\ ret[1] = ret[2]
           /\ exc[1] = exc[2]

\* both calls returned an integer after the truncation rule fired before the
\* last lag
C1_Witness ==
    /\ Returned(1) /\ Returned(2)
    /\ negative_autocorr[2]
    /\ t[2] < n_iters_of(arg[2])
    /\ ret[2] # raw_draws(2)

\* C2: gelman_rubin and my_gelman_rubin compute the same B_over_n, the same W
\* and the same s2 = W*(n-1)/n + B_over_n on the same matrix.
C2_SameVariance ==
    (pc[1] # "entry" /\ pc[2] # "entry")
        => /\ B_over_n[1] = B_over_n[2]
           /\ W[1] = W[2]
           /\ post_var[1] = post_var[2]
           /\ post_var[2] = posterior_variance(W[1], B_over_n[1], n_iters_of(arg[1]))

\* both variances computed on a matrix with within- and between-chain spread
C2_Witness ==
    /\ pc[1] # "entry" /\ pc[2] # "entry"
    /\ less(zero, W[2])
    /\ less(zero, B_over_n[2])

C4_PositiveInteger ==
    \A k \in Calls :
        (fn[k] = "ESS" /\ Done(k)) => (exc[k] = "none" /\ ret[k] > 0)

\* C5: shifting every element by c changes nothing: ESS(x + c) has the
\* posterior variance, the variograms, the rho array, the stopping index and
\* the outcome of ESS(x).
C5_ShiftInvariant ==
    (Done(1) /\ Done(2))
        => /\ post_var[1] = post_var[2]
           /\ \A lag \in 1 .. (n_iters_of(arg[1]) - 1) :
                 variogram(arg[1], lag) = variogram(arg[2], lag)
           /\ rho[1] = rho[2]
           /\ t[1] = t[2]
           /\ negative_autocorr[1] = negative_autocorr[2]
           /\ ret[1] = ret[2]
           /\ exc[1] = exc[2]

\* ESS(x) and ESS(x + c) both returned, c # 0, with a correction applied
C5_Witness ==
    /\ Returned(1) /\ Returned(2)
    /\ arg[1] # arg[2]
    /\ ret[2] # raw_draws(2)
    /\ negative_autocorr[2]

\* C6: the posterior variance returned by gelman_rubin and by
\* my_gelman_rubin is a finite, non-negative number.
C6_VarianceNonNegative ==
    \A k \in Calls :
        pc[k] # "entry" => (isfinite(post_var[k]) /\ ~less(post_var[k], zero))

\* both implementations returned a strictly positive variance
C6_Witness ==
    /\ pc[1] # "entry" /\ pc[2] # "entry"
    /\ less(zero, post_var[1])
    /\ less(zero, post_var[2])

\* C7 as stated: with n = 2 the loop body runs at most once, nothing is
\* raised and ESS returns m*n.
C7_Original ==
    \A k \in Calls :
        (fn[k] = "ESS" /\ n_iters_of(arg[k]) = 2 /\ Done(k))
            => /\ t[k] <= 2
               /\ exc[k] = "none"
               /\ ret[k] = raw_draws(k)

\* C7 amended: with n = 2 the loop body runs exactly once (t leaves the loop
\* at 2); ESS raises exactly when post_var = 0 or 1 + 2*rho[1] = 0, and
\* otherwise returns int(m*n / (1 + 2*rho[1])), the lag-1 correction applied.
C7_TwoIterations ==
    \A k \in Calls :
        (fn[k] = "ESS" /\ n_iters_of(arg[k]) = 2 /\ Done(k))
            => LET pv == gelman_rubin(arg[k])
                   r1 == subtract(fromInt(1),
                                  true_divide(variogram(arg[k], 1),
                                              multiply(fromInt(2), pv)))
                   d == add(fromInt(1), multiply(fromInt(2), r1))
               IN  /\ t[k] = 2
                   /\ rho[k][1] = r1
                   /\ (exc[k] # "none") <=> (pv = zero \/ d = zero)
                   /\ exc[k] = "none"
                         => ret[k] = int(true_divide(fromInt(raw_draws(k)), d))

\* ESS returned on a two-iteration matrix with a value other than m*n
C7_Witness ==
    \E k \in Calls :
        /\ fn[k] = "ESS"
        /\ n_iters_of(arg[k]) = 2
        /\ Returned(k)
        /\ ret[k] # raw_draws(k)

\* C8 as stated: when truncation fired at lag t_stop, the final sum is over
\* rho[1] .. rho[t_stop - 1] and leaves rho[t_stop] out.
C8_Original ==
    \A k \in Calls :
        (Done(k) /\ negative_autocorr[k])
            => denom[k] = denominator(rho[k], first_lag(negative_pairs(rho[k])))

\* C8 amended: when truncation fired at lag t_stop, the final sum is over
\* rho[1] .. rho[t_stop]: it includes rho[t_stop] and leaves out only rho[0].
C8_SumIncludesStopLag ==
    \A k \in Calls :
        (Done(k) /\ negative_autocorr[k])
            => /\ negative_pairs(rho[k]) # {}
               /\ denom[k] =
                     denominator(rho[k], first_lag(negative_pairs(rho[k])) + 1)

\* truncation fired at a lag whose rho is not zero
C8_Witness ==
    \E k \in Calls :
        /\ Done(k)
        /\ negative_autocorr[k]
        /\ rho[k][t[k] - 1] # zero
        /\ rho[k][t[k] - 1] # fromInt(1)

\* the state in which the scan of call k has just ended: the while condition
\* is false and the return has not run yet
ScanEnded(k) == pc[k] = "loop" /\ ~loop_condition(k)

\* where the scan of call k stops: at the first even lag whose pair sum is
\* negative, else after lag n - 1, having set rho[lag] for each lag scanned
C9_StopRule ==
    \A k \in Calls :
        ScanEnded(k)
            => LET full == rho_full(k)
                   S == negative_pairs(full)
                   n == n_iters_of(arg[k])
               IN  /\ IF S # {}
                         THEN negative_autocorr[k] /\ t[k] = first_lag(S) + 1
                         ELSE ~negative_autocorr[k] /\ t[k] = n
                   /\ \A lag \in 1 .. (n - 1) :
                         rho[k][lag] = IF lag < t[k] THEN full[lag] ELSE fromInt(1)
                   /\ rho[k][0] = fromInt(1)

\* a pass of the loop at an odd t leaves the stop flag as it was
C9_OddLagNoCheck ==
    \A k \in Calls :
        (pc[k] = "loop" /\ t[k] % 2 = 1 /\ t'[k] = t[k] + 1)
            => negative_autocorr'[k] = negative_autocorr[k]

\* every step of call k in its loop is either a pass of the body, which
\* raises t by one without passing n_iters, or the exit to the return: the
\* loop makes at most n_iters - 1 passes
C9_LoopVariant ==
    \A k \in Calls :
        (pc[k] = "loop" /\ (pc'[k] # pc[k] \/ t'[k] # t[k]))
            => \/ /\ loop_condition(k)
                  /\ pc'[k] = "loop"
                  /\ t'[k] = t[k] + 1
                  /\ t'[k] <= n_iters_of(arg[k])
               \/ /\ ~loop_condition(k)
                  /\ pc'[k] = "done"
                  /\ t'[k] = t[k]

C10_NoZeroDivisor ==
    \A k \in Calls : zero \notin divisors[k]

=============================================================================
